---- MODULE Spec2Model ----
(***************************************************************************)
(* QtGuidedUI: the step sequencer of InteractiveGuide (QtGuidedUI/core.py) *)
(* and its tooltip positioner, as a state machine.                         *)
(*                                                                         *)
(* The guide runs on the GUI main loop: every transition is one callback   *)
(* dispatched by a user event (the host's "Start Guide" button, a button   *)
(* of a modal message dialog, a button of a step tooltip).  A modal        *)
(* dialog (dialog.exec()) blocks input to every other window until it is   *)
(* closed; a step tooltip is shown with show() and blocks nothing.         *)
(***************************************************************************)
EXTENDS Integers, Sequences, FiniteSets, TLC

\* ------------------------------------------------------------------ bounds

MaxSteps == 2
MaxStarts == 2
MaxOrigin == 1
MaxHost == 14
MaxDialog == 5
MaxCentre == 18
MaxWidget == 3
MaxRounds == 2

\* ------------------------------------------------------------ the host UI

\* Python's None, for a widget reference and for a style string.
None == "None"
NoStyle == "<None>"

\* Object names a step may target.  btnSave and mainTabs are children of the
\* host from the beginning; tabSettings is created by a successful pre-action.
Names == {"btnSave", "mainTabs", "tabSettings"}
InitialChildren == {"btnSave", "mainTabs"}

\* The style highlight_widget sets.
HighlightStyle == "border: 3px solid green;"

\* Style sheets of the host's widgets before the guide touches them: the
\* empty style, an ordinary style, and one equal to the highlight style.
Styles == {"", "color: red;", HighlightStyle}
InitialStyle == [w \in Names |->
                   IF w = "btnSave" THEN ""
                   ELSE IF w = "mainTabs" THEN "color: red;"
                   ELSE HighlightStyle]

\* What getattr(host, pre_action, None) and the call of it can come to.
\*   ran         the callable returned (and created tabSettings)
\*   raised      the callable raised an Exception
\*   noattr      the host has no such attribute
\*   notcallable the attribute is not callable
PreOutcomes == {"ran", "raised", "noattr", "notcallable"}
FailingOutcomes == {"raised", "noattr", "notcallable"}

\* ----------------------------------------------------------- configuration

\* The values of "order" a step is configured with (only their relative
\* order matters to the sequencer).
Orders == {0, 1}

\* A step of the JSON configuration.  has_order is whether the "order" key is
\* present; pre_action is whether a (non-empty) "pre_action" name is given.
StepRecords == [has_order: {TRUE}, order: Orders,
                object_name: Names, pre_action: BOOLEAN]
               \cup [has_order: {FALSE}, order: {0},
                     object_name: Names, pre_action: BOOLEAN]

Configs == UNION {[1..n -> StepRecords] : n \in 0..MaxSteps}

\* key=lambda x: x.get("order", 0)
OrderKey(s) == IF s.has_order THEN s.order ELSE 0

\* Insert s in front of the elements whose key is equal (not stable).
RECURSIVE InsertStable_Unstable(_, _)
InsertStable_Unstable(sorted, s) ==
  IF sorted = <<>> THEN <<s>>
  ELSE IF OrderKey(Head(sorted)) < OrderKey(s)
       THEN <<Head(sorted)>> \o InsertStable_Unstable(Tail(sorted), s)
       ELSE <<s>> \o sorted

\* Insert s behind every element whose key is not larger (stable).
RECURSIVE InsertStable(_, _)
InsertStable(sorted, s) ==
  IF sorted = <<>> THEN <<s>>
  ELSE IF OrderKey(Head(sorted)) <= OrderKey(s)
       THEN <<Head(sorted)>> \o InsertStable(Tail(sorted), s)
       ELSE <<s>> \o sorted

RECURSIVE SortFrom(_, _)
SortFrom(acc, rest) ==
  IF rest = <<>> THEN acc ELSE SortFrom(InsertStable(acc, Head(rest)), Tail(rest))

\* The steps taken as configured, not sorted.
SortedByOrder_Unsorted(cfg) == cfg

\* sorted(guide_data.get("steps", []), key=...)
SortedByOrder(cfg) == SortFrom(<<>>, cfg)

\* ------------------------------------------------------------------- state

VARIABLES
  steps,                          \* self.steps
  current_step_index,             \* self.current_step_index
  current_widget,                 \* self.current_widget (a name, or None)
  current_widget_original_style,  \* self.current_widget_original_style
  styleSheet,                     \* widget.styleSheet() of every widget
  children,                       \* names findChild finds
  modal,                          \* the modal dialog open: None, "intro", "outro"
  tooltips,                       \* step indices whose tooltip dialog is open
  displayed,                      \* history: step indices displayed, in order
  highlighted,                    \* history: widgets highlighted and not restored since
  outroShown,                     \* history: times the outro dialog was shown
  starts,                         \* history: calls of start()
  skipped,                        \* history: Skip pressed since the last start()
  last,                           \* history: the last handler and its effects
  config_file,                    \* the configuration file and what loading it came to
  geo,                            \* arguments of _calculate_tooltip_position
  pos                             \* its result

guideVars == <<steps, current_step_index, current_widget,
               current_widget_original_style, styleSheet, children, modal,
               tooltips, displayed, highlighted, outroShown, starts, skipped, last>>
vars == <<steps, current_step_index, current_widget,
          current_widget_original_style, styleSheet, children, modal,
          tooltips, displayed, highlighted, outroShown, starts, skipped, last,
          config_file, geo, pos>>

\* ---------------------------------------------------- the guide as a record

\* The guide's fields while one handler runs; trace lists the handler's
\* effects in the order they occur.
Guide == [idx |-> current_step_index,
          cw |-> current_widget,
          orig |-> current_widget_original_style,
          style |-> styleSheet,
          children |-> children,
          modal |-> modal,
          tooltips |-> tooltips,
          displayed |-> displayed,
          lit |-> highlighted,
          outro |-> outroShown,
          exc |-> FALSE,
          trace |-> <<>>]

Ev(kind, i, w, r) == [ev |-> kind, step |-> i, w |-> w, r |-> r]
Log(g, e) == [g EXCEPT !.trace = Append(@, e)]

\* The widget a step (0-based index) targets.
TargetOf(i) == steps[i + 1].object_name

\* ------------------------------------------------- highlight and restoration

\* highlight_widget with the two statements swapped: the style is read back
\* after it was overridden.
highlight_widget_SaveAfterSet(g, w) ==
  Log([g EXCEPT !.cw = w,
                !.orig = HighlightStyle,
                !.lit = @ \cup {w},
                !.style = [g.style EXCEPT ![w] = HighlightStyle]],
      Ev("highlight", g.idx, w, g.style[w]))

\* highlight_widget: remember the widget and its style sheet, then override it.
highlight_widget(g, w) ==
  Log([g EXCEPT !.cw = w,
                !.orig = g.style[w],
                !.lit = @ \cup {w},
                !.style = [g.style EXCEPT ![w] = HighlightStyle]],
      Ev("highlight", g.idx, w, g.style[w]))

\* restore_widget_style: put the remembered style back on the remembered
\* widget and forget both; with nothing remembered, only a warning.
restore_widget_style(g) ==
  IF g.cw # None /\ g.orig # NoStyle
  THEN Log([g EXCEPT !.style = [g.style EXCEPT ![g.cw] = g.orig],
                     !.cw = None,
                     !.orig = NoStyle,
                     !.lit = @ \ {g.cw}],
           Ev("restore", g.idx, g.cw, g.orig))
  ELSE Log(g, Ev("norestore", g.idx, None, ""))

\* ------------------------------------------------------------------ dialogs

\* show_message_dialog: a modal dialog (dialog.exec()).
show_message_dialog(g, title) ==
  Log([g EXCEPT !.modal = title,
                !.outro = IF title = "outro" THEN @ + 1 ELSE @],
      Ev("dialog", g.idx, None, title))

\* show_step_tooltip: a non-modal dialog anchored to the step's widget, with
\* "Next" and "Skip Guide" buttons bound to that dialog.
show_step_tooltip(g, w) ==
  Log([g EXCEPT !.tooltips = @ \cup {g.idx},
                !.displayed = Append(@, g.idx)],
      Ev("tooltip", g.idx, w, ""))

\* ---------------------------------------------------------------- next_step

\* self.current_step_index += 1
AdvanceCursor(g) ==
  Log([g EXCEPT !.idx = @ + 1], Ev("inc", g.idx + 1, None, ""))

\* The pre-action block without its try/except: an exception of the callable
\* leaves next_step.
RunPreAction_NoCatch(g, r) ==
  IF r = "ran"
  THEN Log([g EXCEPT !.children = @ \cup {"tabSettings"}],
           Ev("pre", g.idx, None, r))
  ELSE Log([g EXCEPT !.exc = (r = "raised")], Ev("pre", g.idx, None, r))

\* The pre-action block of next_step for a step that names a pre-action, the
\* host answering with outcome r.  Every failure ends in a logged warning.
RunPreAction(g, r) ==
  IF r = "ran"
  THEN Log([g EXCEPT !.children = @ \cup {"tabSettings"}],
           Ev("pre", g.idx, None, r))
  ELSE Log(g, Ev("pre", g.idx, None, r))

\* The guides the pre-action block can leave behind: one per answer of the
\* host when the step names a pre-action, the guide untouched when not.
PreActionResults(g, step) ==
  IF step.pre_action THEN {RunPreAction(g, r) : r \in PreOutcomes} ELSE {g}

\* self.parent_widget.findChild(QWidget, name): the widget, or None.
FindChild(g, name) == IF name \in g.children THEN name ELSE None

\* The end test one step early.
AtEnd_OneEarly(g) == g.idx >= Len(steps) - 1

\* if self.current_step_index >= len(self.steps)
AtEnd(g) == g.idx >= Len(steps)

\* The tooltip shown first and the widget highlighted after it.
Present_TooltipFirst(g, w) == highlight_widget(show_step_tooltip(g, w), w)

\* A widget that was found is highlighted, then its tooltip is shown.
Present(g, w) == show_step_tooltip(highlight_widget(g, w), w)

\* A widget that was not found: next_step returns without advancing.
SkipStep_Return(g, nested) == {g}

\* A widget that was not found: a warning, then the nested self.next_step(),
\* whose results are nested.
SkipStep(g, nested) == nested

\* next_step, whole: the set of guides it can end in (one per sequence of
\* answers of the host to the pre-actions it runs).
RECURSIVE next_step(_)
next_step(g) ==
  LET g1 == AdvanceCursor(g) IN
  IF AtEnd(g1)
  THEN {show_message_dialog(g1, "outro")}
  ELSE LET step == steps[g1.idx + 1]
           Continue(g2) ==
             IF g2.exc THEN {g2}
             ELSE LET w == FindChild(g2, step.object_name)
                      g3 == Log(g2, Ev("find", g2.idx, w, ""))
                  IN IF w = None THEN SkipStep(g3, next_step(g3))
                     ELSE {Present(g3, w)}
       IN UNION {Continue(g2) : g2 \in PreActionResults(g1, step)}

\* ------------------------------------------------------------------ actions

\* The state a handler leaves behind.
Commit(g, op, tip) ==
  /\ current_step_index' = g.idx
  /\ current_widget' = g.cw
  /\ current_widget_original_style' = g.orig
  /\ styleSheet' = g.style
  /\ children' = g.children
  /\ modal' = g.modal
  /\ tooltips' = g.tooltips
  /\ displayed' = g.displayed
  /\ highlighted' = g.lit
  /\ outroShown' = g.outro
  /\ last' = [op |-> op, tip |-> tip, idxBefore |-> current_step_index,
              exc |-> g.exc, trace |-> g.trace]

NoHandler == [op |-> "init", tip |-> -1, idxBefore |-> -1,
              exc |-> FALSE, trace |-> <<>>]

\* The configuration file once GuidedUI.__init__ has loaded it and built the
\* guide from it; the guide never looks at the file or at guide_data again,
\* and the steps read from it are left out here.
Loaded == [status |-> "valid", content |-> <<>>, outcome |-> "created"]

NoGeo == [cx |-> 0, cy |-> 0, top |-> 0, bottom |-> 0,
          px |-> 0, py |-> 0, pw |-> 0, ph |-> 0, dw |-> 0, dh |-> 0]
NoPos == [x |-> 0, y |-> 0, done |-> FALSE]

\* GuidedUI.__init__ on a valid configuration, then InteractiveGuide.__init__:
\* the configured steps, in any order, come out sorted.
Init ==
  /\ steps \in {SortedByOrder(cfg) : cfg \in Configs}
  /\ current_step_index = -1
  /\ current_widget = None
  /\ current_widget_original_style = NoStyle
  /\ styleSheet = InitialStyle
  /\ children = InitialChildren
  /\ modal = None
  /\ tooltips = {}
  /\ displayed = <<>>
  /\ highlighted = {}
  /\ outroShown = 0
  /\ starts = 0
  /\ skipped = FALSE
  /\ last = NoHandler
  /\ config_file = Loaded
  /\ geo = NoGeo
  /\ pos = NoPos

\* start() putting the cursor back before the first step.
start_ResetsCursor ==
  /\ config_file.outcome = "created"
  /\ modal = None
  /\ starts < MaxStarts
  /\ starts' = starts + 1
  /\ skipped' = FALSE
  /\ Commit(show_message_dialog([Guide EXCEPT !.idx = -1], "intro"), "start", -1)
  /\ UNCHANGED <<steps, config_file, geo, pos>>

\* start() (GuidedUI.start_guide, the host's "Start Guide" button): the intro
\* dialog.  The host window takes input whenever no modal dialog is open.
start ==
  /\ config_file.outcome = "created"
  /\ modal = None
  /\ starts < MaxStarts
  /\ starts' = starts + 1
  /\ skipped' = FALSE
  /\ Commit(show_message_dialog(Guide, "intro"), "start", -1)
  /\ UNCHANGED <<steps, config_file, geo, pos>>

\* The intro's "Start" button: on_button_clicked accepts the dialog and calls
\* the callback, next_step.
IntroStart ==
  /\ modal = "intro"
  /\ \E g \in next_step([Guide EXCEPT !.modal = None]) :
       Commit(g, "introStart", -1)
  /\ UNCHANGED <<steps, starts, skipped, config_file, geo, pos>>

\* The intro's dismissal running the callback as "Start" does.
IntroDismiss_RunsCallback ==
  /\ modal = "intro"
  /\ \E g \in next_step([Guide EXCEPT !.modal = None]) :
       Commit(g, "introDismiss", -1)
  /\ UNCHANGED <<steps, starts, skipped, config_file, geo, pos>>

\* The intro dismissed any other way (Escape, the window's close button): the
\* dialog is rejected and no callback runs.
IntroDismiss ==
  /\ modal = "intro"
  /\ Commit([Guide EXCEPT !.modal = None], "introDismiss", -1)
  /\ UNCHANGED <<steps, starts, skipped, config_file, geo, pos>>

\* The outro's "Close" button (no callback), or its dismissal.
OutroClose ==
  /\ modal = "outro"
  /\ Commit([Guide EXCEPT !.modal = None], "outroClose", -1)
  /\ UNCHANGED <<steps, starts, skipped, config_file, geo, pos>>

\* next_step_action(dialog), "Next" on the tooltip of step t.
next_step_action(t) ==
  /\ modal = None
  /\ t \in tooltips
  /\ \E g \in next_step(restore_widget_style(
                 [Guide EXCEPT !.tooltips = @ \ {t}])) :
       Commit(g, "next", t)
  /\ UNCHANGED <<steps, starts, skipped, config_file, geo, pos>>

\* skip_guide_action(dialog), "Skip Guide" on the tooltip of step t.
skip_guide_action(t) ==
  /\ modal = None
  /\ t \in tooltips
  /\ Commit(restore_widget_style([Guide EXCEPT !.tooltips = @ \ {t}]),
            "skip", t)
  /\ skipped' = TRUE
  /\ UNCHANGED <<steps, starts, config_file, geo, pos>>

PressNext == \E t \in tooltips : next_step_action(t)
PressSkip == \E t \in tooltips : skip_guide_action(t)

Next ==
  \/ start
  \/ IntroStart
  \/ IntroDismiss
  \/ OutroClose
  \/ PressNext
  \/ PressSkip

Spec == Init /\ [][Next]_vars

\* The user keeps pressing "Next" (and the button of any modal dialog).
FairSpec ==
  /\ Spec
  /\ WF_vars(PressNext \/ IntroStart \/ OutroClose)

\* ------------------------------------------------ GuidedUI: load and build

\* The configuration file GuidedUI.__init__ is given: a valid JSON document
\* with its steps as configured, no file at that path, or a file that is not
\* valid JSON.
ConfigFiles ==
  {[status |-> "valid", content |-> cfg, outcome |-> "pending"] : cfg \in Configs}
  \cup {[status |-> st, content |-> <<>>, outcome |-> "pending"] :
          st \in {"missing", "invalid"}}

\* load_guide_config that logs the error and goes on with an empty document.
load_guide_config_Swallow(f) ==
  IF f.status = "valid"
  THEN [raised |-> None, steps |-> f.content]
  ELSE [raised |-> None, steps |-> <<>>]

\* load_guide_config: the document's steps, or the exception that open() or
\* json.load raised, logged and raised again.
load_guide_config(f) ==
  IF f.status = "missing" THEN [raised |-> "FileNotFoundError", steps |-> <<>>]
  ELSE IF f.status = "invalid" THEN [raised |-> "JSONDecodeError", steps |-> <<>>]
  ELSE [raised |-> None, steps |-> f.content]

\* Before GuidedUI.__init__ has run there is no guide.
LoadInit ==
  /\ config_file \in ConfigFiles
  /\ steps = <<>>
  /\ current_step_index = -1
  /\ current_widget = None
  /\ current_widget_original_style = NoStyle
  /\ styleSheet = InitialStyle
  /\ children = InitialChildren
  /\ modal = None
  /\ tooltips = {}
  /\ displayed = <<>>
  /\ highlighted = {}
  /\ outroShown = 0
  /\ starts = 0
  /\ skipped = FALSE
  /\ last = NoHandler
  /\ geo = NoGeo
  /\ pos = NoPos

\* GuidedUI.__init__: load the configuration, then InteractiveGuide.__init__
\* on it; an exception of the load leaves __init__ before the guide is made.
GuidedUI_init ==
  /\ config_file.outcome = "pending"
  /\ LET r == load_guide_config(config_file) IN
     IF r.raised # None
     THEN /\ config_file' = [config_file EXCEPT !.outcome = r.raised]
          /\ UNCHANGED <<steps, current_step_index, current_widget,
                         current_widget_original_style>>
     ELSE /\ config_file' = [config_file EXCEPT !.outcome = "created"]
          /\ steps' = SortedByOrder(r.steps)
          /\ current_step_index' = -1
          /\ current_widget' = None
          /\ current_widget_original_style' = NoStyle
  /\ UNCHANGED <<styleSheet, children, modal, tooltips, displayed, highlighted,
                 outroShown, starts, skipped, last, geo, pos>>

\* The constructor, then the guide's entry point and the intro's dismissal.
LoadNext ==
  \/ GuidedUI_init
  \/ start
  \/ IntroDismiss

LoadSpec == LoadInit /\ [][LoadNext]_vars

\* ------------------------------------------- highlight and restore, alone

\* A guide before start(), its widgets carrying any styles and all three of
\* them present, with or without a widget already highlighted and remembered.
StyleInit ==
  /\ steps = <<>>
  /\ current_step_index = -1
  /\ \E w \in Names \cup {None} :
       /\ current_widget = w
       /\ current_widget_original_style \in
            (IF w = None THEN {NoStyle} ELSE Styles)
       /\ highlighted = (IF w = None THEN {} ELSE {w})
  /\ styleSheet \in [Names -> Styles]
  /\ current_widget # None => styleSheet[current_widget] = HighlightStyle
  /\ children = Names
  /\ modal = None
  /\ tooltips = {}
  /\ displayed = <<>>
  /\ outroShown = 0
  /\ starts = 0
  /\ skipped = FALSE
  /\ last = NoHandler
  /\ config_file = Loaded
  /\ geo = NoGeo
  /\ pos = NoPos

\* self.highlight_widget(widget), as next_step calls it.
Highlight(w) ==
  /\ last.op \in {"init", "restore"}
  /\ Len(last.trace) < 2 * MaxRounds
  /\ Commit(highlight_widget([Guide EXCEPT !.trace = last.trace], w),
            "highlight", -1)
  /\ UNCHANGED <<steps, starts, skipped, config_file, geo, pos>>

\* self.restore_widget_style(), as the tooltip's buttons call it.
Restore ==
  /\ last.op = "highlight"
  /\ Commit(restore_widget_style([Guide EXCEPT !.trace = last.trace]),
            "restore", -1)
  /\ UNCHANGED <<steps, starts, skipped, config_file, geo, pos>>

StyleNext ==
  \/ \E w \in children : Highlight(w)
  \/ Restore

StyleSpec == StyleInit /\ [][StyleNext]_vars

\* -------------------------------------------------------- tooltip position

\* The gap the positioner leaves to the widget and to the host's edge.
Margin == 10

\* The right-hand adjustment with the margin added instead of subtracted.
TooltipX_MarginSign(cx, dw, px, pw) ==
  LET x == cx - (dw \div 2) IN
  IF x < px THEN px + Margin
  ELSE IF x + dw > px + pw THEN px + pw - dw + Margin
  ELSE x

\* x of _calculate_tooltip_position: centred on the widget's centre cx, moved
\* inside when the dialog (width dw) leaves the host (left edge px, width pw).
TooltipX(cx, dw, px, pw) ==
  LET x == cx - (dw \div 2) IN
  IF x < px THEN px + Margin
  ELSE IF x + dw > px + pw THEN px + pw - dw - Margin
  ELSE x

\* The vertical test with <= for <: a widget centred on the host's midline
\* gets its tooltip below.
TooltipY_Inclusive(cy, top, bottom, dh, py, ph) ==
  IF cy <= py + (ph \div 2) THEN bottom + Margin ELSE top - dh - Margin

\* y of _calculate_tooltip_position: below the widget when its centre cy is
\* above the host's centre (top edge py, height ph), else above the widget.
TooltipY(cy, top, bottom, dh, py, ph) ==
  IF cy < py + (ph \div 2) THEN bottom + Margin ELSE top - dh - Margin

calculate_tooltip_position(a) ==
  [x |-> TooltipX(a.cx, a.dw, a.px, a.pw),
   y |-> TooltipY(a.cy, a.top, a.bottom, a.dh, a.py, a.ph),
   done |-> TRUE]

\* Arguments that vary along the horizontal axis.
HorizontalArgs ==
  {[cx |-> cx, cy |-> 0, top |-> 0, bottom |-> 0,
    px |-> px, py |-> 0, pw |-> pw, ph |-> 0, dw |-> dw, dh |-> 0] :
     cx \in -MaxCentre..MaxCentre, px \in -MaxOrigin..MaxOrigin,
     pw \in 0..MaxHost, dw \in 0..MaxDialog}

\* Arguments that vary along the vertical axis: a widget of height h at top
\* has its bottom row at top + h - 1 and its centre at top + (h - 1) div 2.
VerticalArgs ==
  {[cx |-> 0, cy |-> top + ((h - 1) \div 2), top |-> top, bottom |-> top + h - 1,
    px |-> 0, py |-> py, pw |-> 0, ph |-> ph, dw |-> 0, dh |-> dh] :
     top \in -MaxCentre..MaxCentre, h \in 1..MaxWidget,
     py \in -MaxOrigin..MaxOrigin, ph \in 0..MaxHost, dh \in 0..MaxDialog}

\* A guide on an empty step list, before start(); the positioner's arguments
\* drawn along one axis at a time (x and y are computed independently).
GeoInit ==
  /\ steps = <<>>
  /\ current_step_index = -1
  /\ current_widget = None
  /\ current_widget_original_style = NoStyle
  /\ styleSheet = InitialStyle
  /\ children = InitialChildren
  /\ modal = None
  /\ tooltips = {}
  /\ displayed = <<>>
  /\ highlighted = {}
  /\ outroShown = 0
  /\ starts = 0
  /\ skipped = FALSE
  /\ last = NoHandler
  /\ config_file = Loaded
  /\ geo \in HorizontalArgs \cup VerticalArgs
  /\ pos = NoPos

\* pos = self._calculate_tooltip_position(widget, tooltip_dialog)
Position ==
  /\ ~pos.done
  /\ pos' = calculate_tooltip_position(geo)
  /\ UNCHANGED <<guideVars, config_file, geo>>

GeoNext == Position

GeoSpec == GeoInit /\ [][GeoNext]_vars

\* =================================================================== claims

Max(a, b) == IF a >= b THEN a ELSE b

\* Events of the last handler's trace of one kind.
EventsOf(kind) == {k \in DOMAIN last.trace : last.trace[k].ev = kind}

\* C1: in every reachable state at most one widget has its style overridden
\* by highlight_widget and not yet restored.
C1_AtMostOneHighlighted == Cardinality(highlighted) <= 1

\* C2: whenever no step tooltip is open, every widget's style sheet equals the
\* value it had before the guide first highlighted it.
C2_NoTooltipNoOverride == (tooltips = {}) => (styleSheet = InitialStyle)

\* C3: for every widget w and every style s it carries, highlight_widget(w)
\* followed by restore_widget_style() leaves w's style equal to s and leaves
\* current_widget and current_widget_original_style None, also when the
\* same widget is highlighted and restored again.
C3_HighlightRestoreRoundTrip ==
  last.op = "restore" =>
    LET n == Len(last.trace)
        h == last.trace[n - 1]
    IN /\ h.ev = "highlight" /\ last.trace[n].ev = "restore"
       /\ styleSheet[h.w] = h.r
       /\ current_widget = None
       /\ current_widget_original_style = NoStyle

\* C3 witness: a widget whose style equals the highlight style was
\* highlighted and restored twice in a row.
C3_Witness ==
  /\ last.op = "restore"
  /\ Len(last.trace) = 4
  /\ last.trace[1].w = last.trace[3].w
  /\ last.trace[1].r = HighlightStyle
  /\ styleSheet[last.trace[3].w] = HighlightStyle

\* C4 as stated: once the cursor is at or past the end the outro has been
\* shown, and it is never shown a second time.
C4_OutroExactlyOnce ==
  /\ current_step_index >= Len(steps) => outroShown >= 1
  /\ outroShown <= 1

\* C4 amended: the outro is shown exactly once for every advance that finds
\* the cursor at or past the end (never before the end is reached), so the
\* number of times it was shown is the distance the cursor went past the
\* last step.
C4_OutroOncePerAdvancePastEnd ==
  outroShown = IF current_step_index >= Len(steps)
               THEN current_step_index - Len(steps) + 1
               ELSE 0

\* C4 witness: the outro was shown, closed, and shown a second time.
C4_Witness == outroShown = 2 /\ modal = "outro" /\ steps # <<>>

\* C5: the steps displayed have non-decreasing order values, in the order in
\* which they were displayed, and no step is displayed twice.
C5_DisplayedInOrder ==
  \A i, j \in DOMAIN displayed :
    i < j => /\ displayed[i] < displayed[j]
             /\ OrderKey(steps[displayed[i] + 1]) <= OrderKey(steps[displayed[j] + 1])

\* C5 witness: two steps of different order were displayed.
C5_Witness ==
  /\ Len(displayed) = 2
  /\ OrderKey(steps[displayed[1] + 1]) < OrderKey(steps[displayed[2] + 1])

EventuallyOutro == (tooltips # {}) ~> (outroShown > 0 \/ skipped)

C7_SkipEndsRun ==
  /\ last.op = "skip" =>
       /\ last.tip \notin tooltips
       /\ styleSheet[TargetOf(last.tip)] = InitialStyle[TargetOf(last.tip)]
       /\ current_widget = None
       /\ current_step_index = last.idxBefore
  /\ (skipped /\ last.op # "skip") =>
       EventsOf("highlight") \cup EventsOf("pre") \cup EventsOf("dialog") = {}

\* C8: a pre-action that raises, is missing on the host or is not callable
\* does not abort its step: the widget is looked up next, exactly as without
\* a pre-action, and when found it is highlighted and its tooltip displayed;
\* when not found the step is skipped; the cursor stays on the step.
C8_Step ==
  LET tr == last'.trace IN
  \A k \in DOMAIN tr :
    (tr[k].ev = "pre" /\ tr[k].r \in FailingOutcomes) =>
      LET i == tr[k].step
          created == IF \E j \in 1..(k - 1) : tr[j].ev = "pre" /\ tr[j].r = "ran"
                     THEN {"tabSettings"} ELSE {}
          there == TargetOf(i) \in children \cup created
      IN /\ ~last'.exc
         /\ k < Len(tr)
         /\ tr[k + 1].ev = "find" /\ tr[k + 1].step = i
         /\ tr[k + 1].w = (IF there THEN TargetOf(i) ELSE None)
         /\ IF there
            THEN /\ Len(tr) = k + 3
                 /\ tr[k + 2].ev = "highlight" /\ tr[k + 2].w = TargetOf(i)
                 /\ tr[k + 3].ev = "tooltip" /\ tr[k + 3].step = i
                 /\ i \in tooltips'
                 /\ styleSheet'[TargetOf(i)] = HighlightStyle
                 /\ current_step_index' = i
            ELSE /\ Len(tr) > k + 1
                 /\ tr[k + 2].ev = "inc" /\ tr[k + 2].step = i + 1

C8_FailingPreActionProceeds == [][C8_Step]_vars

\* C8 witness: the pre-action of the step now displayed raised.
C8_Witness ==
  /\ last.op \in {"introStart", "next"}
  /\ current_step_index \in tooltips
  /\ \E k \in EventsOf("pre") :
       /\ last.trace[k].r = "raised"
       /\ last.trace[k].step = current_step_index
  /\ styleSheet[TargetOf(current_step_index)] = HighlightStyle

\* The centred horizontal position, before any adjustment.
Centred == geo.cx - (geo.dw \div 2)
CentredFits == geo.px <= Centred /\ Centred + geo.dw <= geo.px + geo.pw

\* C9 as stated: for all arguments the dialog lies within the host's
\* horizontal bounds, and it is centred on the widget whenever the centred
\* position lies within them.
C9_ClampedToHost ==
  pos.done =>
    /\ geo.px <= pos.x /\ pos.x + geo.dw <= geo.px + geo.pw
    /\ CentredFits => pos.x = Centred

\* C9 amended: the dialog lies within the host's horizontal bounds whenever
\* the host is at least 10 wider than the dialog; it is centred on the widget
\* whenever the centred position lies within the bounds, and otherwise it is
\* put 10 inside the edge it crossed (the left one first).
C9_ClampedWhenHostWideEnough ==
  pos.done =>
    /\ geo.dw + Margin <= geo.pw =>
         geo.px <= pos.x /\ pos.x + geo.dw <= geo.px + geo.pw
    /\ CentredFits => pos.x = Centred
    /\ Centred < geo.px => pos.x = geo.px + Margin
    /\ (Centred >= geo.px /\ Centred + geo.dw > geo.px + geo.pw) =>
         pos.x + geo.dw = geo.px + geo.pw - Margin

\* C9 witness: a dialog crossing the right edge of a host wide enough for it
\* was moved inside.
C9_Witness ==
  /\ pos.done
  /\ geo.dw > 0 /\ geo.dw + Margin <= geo.pw
  /\ Centred >= geo.px /\ Centred + geo.dw > geo.px + geo.pw
  /\ pos.x = geo.px + geo.pw - geo.dw - Margin

\* C10: the tooltip is below the widget (y = bottom + 10) when the widget's
\* centre is strictly above the host's centre, else above it (y = top -
\* dialog height - 10); either way the dialog's rows [y, y + dh] and the
\* widget's rows [top, bottom] do not overlap.
C10_BelowInUpperHalfElseAbove ==
  pos.done =>
    LET hostCentre == geo.py + (geo.ph \div 2) IN
    /\ geo.cy < hostCentre => pos.y = geo.bottom + Margin
    /\ geo.cy >= hostCentre => pos.y = geo.top - geo.dh - Margin
    /\ pos.y > geo.bottom \/ pos.y + geo.dh < geo.top

\* C10 witness: a widget centred exactly on the host's midline got its
\* tooltip above.
C10_Witness ==
  /\ pos.done
  /\ geo.bottom > geo.top /\ geo.dh > 0 /\ geo.ph > 0
  /\ geo.cy = geo.py + (geo.ph \div 2)
  /\ pos.y + geo.dh < geo.top

\* C11: current_step_index is -1 until the intro's "Start" is first pressed;
\* no handler decreases it, and a handler raises it by one per step it
\* advanced; while a step's tooltip is displayed it is an index of the list.
C11_CursorMonotoneInRange ==
  /\ (displayed = <<>> /\ outroShown = 0) => current_step_index = -1
  /\ current_step_index >= last.idxBefore
  /\ current_step_index - last.idxBefore = Cardinality(EventsOf("inc"))
  /\ tooltips # {} =>
       (0 <= current_step_index /\ current_step_index < Len(steps))

\* C12: loading a missing or invalid configuration file ends in the error
\* (FileNotFoundError, JSONDecodeError) leaving GuidedUI.__init__, no guide
\* is created and no transition of the guide is possible afterwards; loading
\* a valid file never ends in the error.
C12_LoadErrorIsFatal ==
  /\ config_file.outcome # "pending" =>
       /\ config_file.status = "missing" <=>
            config_file.outcome = "FileNotFoundError"
       /\ config_file.status = "invalid" <=>
            config_file.outcome = "JSONDecodeError"
       /\ config_file.status = "valid" <=> config_file.outcome = "created"
  /\ config_file.outcome # "created" =>
       /\ steps = <<>> /\ current_step_index = -1
       /\ starts = 0 /\ modal = None /\ tooltips = {}
       /\ last = NoHandler
  /\ config_file.outcome \in {"FileNotFoundError", "JSONDecodeError"} =>
       ~ENABLED Next

\* C12 witness: the constructor was given a file that is not valid JSON.
C12_Witness ==
  /\ config_file.status = "invalid"
  /\ config_file.outcome = "JSONDecodeError"

C14_HandlersRestoreOwnWidget ==
  last.op \in {"next", "skip"} =>
    /\ EventsOf("restore") # {}
    /\ \A k \in EventsOf("restore") : last.trace[k].w = TargetOf(last.tip)

\* C15: start() never resets the cursor.  A start() leaves the cursor where the
\* previous run left it and shows the intro; the intro's "Start" then resumes
\* with the first step after that cursor whose widget is found (never with an
\* earlier step), and when the cursor is already at or past the last step it
\* shows the outro directly, with no step looked up or displayed.
C15_StartNeverResetsCursor ==
  /\ last.op = "start" =>
       /\ current_step_index = last.idxBefore
       /\ modal = "intro"
  /\ last.op = "introStart" =>
       LET tr == last.trace
           tips == EventsOf("tooltip")
           finds == EventsOf("find")
       IN /\ tr[1].ev = "inc" /\ tr[1].step = last.idxBefore + 1
          /\ \A k \in tips :
               /\ tr[k].step = current_step_index
               /\ tr[k].step > last.idxBefore
               /\ tooltips \cap ((last.idxBefore + 1) .. Len(steps)) = {tr[k].step}
               /\ \A j \in (last.idxBefore + 1) .. (tr[k].step - 1) :
                    \E f \in finds : tr[f].step = j /\ tr[f].w = None
          /\ tips = {} =>
               /\ modal = "outro"
               /\ \A f \in finds : tr[f].w = None
               /\ \A j \in (last.idxBefore + 1) .. (Len(steps) - 1) :
                    \E f \in finds : tr[f].step = j
          /\ last.idxBefore >= Len(steps) - 1 =>
               /\ Len(tr) = 2
               /\ tr[2].ev = "dialog" /\ tr[2].r = "outro"
               /\ modal = "outro"

\* C15 witness: the run was ended by "Skip Guide" on the first step's tooltip,
\* and a later start() and "Start" resumed with the second step.
C15_Witness ==
  /\ last.op = "introStart"
  /\ last.idxBefore = 0
  /\ starts = 2
  /\ displayed = <<0, 1>>
  /\ tooltips = {1}

\* C16: start() itself only shows the intro dialog and leaves the cursor, the
\* remembered widget, the saved style and every widget's style unchanged; the
\* cursor leaves its place under an open intro only by the "Start" button, and
\* leaves -1 only so; dismissing the intro any other way leaves the whole guide
\* state unchanged and runs no pre-action.
C16_StartOnlyShowsIntro ==
  [][/\ last'.op = "start" =>
          /\ modal' = "intro"
          /\ last'.trace = <<Ev("dialog", current_step_index, None, "intro")>>
          /\ UNCHANGED <<steps, current_step_index, current_widget,
                         current_widget_original_style, styleSheet, children,
                         tooltips, displayed, highlighted, outroShown>>
     /\ last'.op = "introDismiss" =>
          /\ modal = "intro" /\ modal' = None
          /\ last'.trace = <<>>
          /\ UNCHANGED <<steps, current_step_index, current_widget,
                         current_widget_original_style, styleSheet, children,
                         tooltips, displayed, highlighted, outroShown>>
     /\ ((modal = "intro" \/ current_step_index = -1)
           /\ current_step_index' # current_step_index) =>
          /\ modal = "intro"
          /\ last'.op = "introStart"
    ]_vars

\* C16 witness: an intro shown by start() while a step was highlighted and its
\* tooltip open has been dismissed, and that state is still there.
C16_Witness ==
  /\ last.op = "introDismiss"
  /\ starts = 2
  /\ current_widget # None
  /\ tooltips = {current_step_index}
  /\ styleSheet[current_widget] = HighlightStyle

\* C17: the step list of a guide that was created is a permutation of the
\* configured steps in non-decreasing order of `order`, a step without `order`
\* counting as 0, and steps of equal order keep the relative order they have
\* in the configuration.
C17_StableSortByOrder ==
  config_file.outcome = "created" =>
    LET cfg == config_file.content
        n == Len(cfg)
        key(s) == IF s.has_order THEN s.order ELSE 0
    IN /\ Len(steps) = n
       /\ \E p \in [1 .. n -> 1 .. n] :
            /\ \A i, j \in 1 .. n : i # j => p[i] # p[j]
            /\ \A i \in 1 .. n : steps[i] = cfg[p[i]]
            /\ \A i, j \in 1 .. n :
                 i < j => \/ key(steps[i]) < key(steps[j])
                          \/ key(steps[i]) = key(steps[j]) /\ p[i] < p[j]

\* C17 witness: a configuration whose second step has no `order` and whose first
\* step has a positive one was loaded, and the second step was placed first.
C17_Witness ==
  /\ config_file.outcome = "created"
  /\ Len(config_file.content) = 2
  /\ config_file.content[1].has_order /\ config_file.content[1].order > 0
  /\ ~config_file.content[2].has_order
  /\ steps = <<config_file.content[2], config_file.content[1]>>

====
